---- MODULE Spec2Model ----
(***************************************************************************)
(* Email worker of docoi/Lvault (src/src/index.ts): the email() handler,   *)
(* forwardEmail() and parseEmailBody().                                    *)
(*                                                                         *)
(* Text is a sequence of one-character strings.  A byte is written as the  *)
(* ASCII character it encodes; the two bytes of the UTF-8 encoding of      *)
(* U+00E9 are written "C3" and "A9", and the decoded code points U+00E9    *)
(* and U+FFFD are written "U+E9" and "U+FFFD".                             *)
(***************************************************************************)
EXTENDS Naturals, Sequences, FiniteSets, TLC

VARIABLES
    pc,          \* position of the handler between its awaits
    env,         \* env.FORWARD_TO_EMAIL
    source,      \* the bytes of message.raw, as the platform holds them
    pending,     \* bytes the stream has not delivered yet
    readerHeld,  \* the stream's lock is held by the reader of parseEmailBody
    reads,       \* number of reader.read() results consumed
    chunks,      \* parseEmailBody's chunks array
    parsed,      \* the ParsedEmailContent, once parseEmailBody has returned
    content,     \* the payload's content array, once composed
    fetchCalls,  \* number of POSTs issued to the send collaborator
    fetched,     \* what the send collaborator answered
    error,       \* the value thrown and not yet caught by email()
    response     \* the Response email() returned

vars == <<pc, env, source, pending, readerHeld, reads, chunks, parsed,
          content, fetchCalls, fetched, error, response>>

-----------------------------------------------------------------------------
(* Bounds of the model. *)

\* most chunks a stream delivers before end-of-stream
MaxChunks == 2
\* most boundary-delimited sections in a generated multipart body
MaxSections == 2
\* longest free-form text (over FreeChars) given to the decoder
MaxText == 3

-----------------------------------------------------------------------------
(* JavaScript string primitives used by parseEmailBody. *)

None == <<>>
Some(v) == <<v>>

\* the characters String.prototype.trim and the regex class \s remove
IsWS(c) == c \in {" ", "\t", "\n", "\r"}

UpperToLower ==
       "A" :> "a" @@ "B" :> "b" @@ "C" :> "c" @@ "D" :> "d" @@ "E" :> "e" @@ "F" :> "f" @@
       "G" :> "g" @@ "H" :> "h" @@ "I" :> "i" @@ "J" :> "j" @@ "K" :> "k" @@ "L" :> "l" @@
       "M" :> "m" @@ "N" :> "n" @@ "O" :> "o" @@ "P" :> "p" @@ "Q" :> "q" @@ "R" :> "r" @@
       "S" :> "s" @@ "T" :> "t" @@ "U" :> "u" @@ "V" :> "v" @@ "W" :> "w" @@ "X" :> "x" @@
       "Y" :> "y" @@ "Z" :> "z"

\* String.prototype.toLowerCase, and the folding of the regex flag i
ToLowerChar(c) == IF c \in DOMAIN UpperToLower THEN UpperToLower[c] ELSE c

ToLowerCase(s) == [i \in 1..Len(s) |-> ToLowerChar(s[i])]

\* least and greatest element of a non-empty set of indices
Min(S) == CHOOSE x \in S : \A y \in S : x <= y
Max(S) == CHOOSE x \in S : \A y \in S : x >= y

\* first index >= i of s that holds no white space, Len(s) + 1 when none does
SkipWS(s, i) ==
    LET rest == { p \in i..Len(s) : ~IsWS(s[p]) }
    IN  IF rest = {} THEN Len(s) + 1 ELSE Min(rest)

\* String.prototype.trim
Trim(s) ==
    LET kept == { p \in 1..Len(s) : ~IsWS(s[p]) }
    IN  IF kept = {} THEN <<>> ELSE SubSeq(s, Min(kept), Max(kept))

\* lit occurs in s at index i
StartsWithAt(s, i, lit) ==
    /\ i + Len(lit) - 1 <= Len(s)
    /\ \A k \in 1..Len(lit) : s[i + k - 1] = lit[k]

\* as StartsWithAt, ignoring case (lit is lower case)
StartsWithAtCI(s, i, lit) ==
    /\ i + Len(lit) - 1 <= Len(s)
    /\ \A k \in 1..Len(lit) : ToLowerChar(s[i + k - 1]) = lit[k]

\* first index >= i at which lit occurs in s, 0 when there is none
IndexOf(s, lit, i) ==
    LET hits == { p \in i..Len(s) : StartsWithAt(s, p, lit) }
    IN  IF hits = {} THEN 0 ELSE Min(hits)

\* String.prototype.includes
Includes(s, lit) == IndexOf(s, lit, 1) # 0

\* String.prototype.split with a non-empty string separator, from index i
RECURSIVE SplitFrom(_, _, _)
SplitFrom(s, sep, i) ==
    LET p == IndexOf(s, sep, i)
    IN  IF p = 0 THEN << SubSeq(s, i, Len(s)) >>
        ELSE << SubSeq(s, i, p - 1) >> \o SplitFrom(s, sep, p + Len(sep))

Split(s, sep) == SplitFrom(s, sep, 1)

\* length of the match of /\r?\n\r?\n/ at index i of s, 0 when it does not match
BlankLineAt(s, i) ==
    LET a == IF i <= Len(s) /\ s[i] = "\r" THEN i + 1 ELSE i
        b == IF a + 1 <= Len(s) /\ s[a + 1] = "\r" THEN a + 2 ELSE a + 1
    IN  IF a <= Len(s) /\ s[a] = "\n" /\ b <= Len(s) /\ s[b] = "\n"
        THEN b - i + 1 ELSE 0

\* String.prototype.split(/\r?\n\r?\n/), from index p on: the piece up to
\* the leftmost match at or after p, then the rest after that match
RECURSIVE SplitBlankFrom(_, _)
SplitBlankFrom(s, p) ==
    LET hits == { q \in p..Len(s) : BlankLineAt(s, q) > 0 }
    IN  IF hits = {} THEN << SubSeq(s, p, Len(s)) >>
        ELSE LET q == Min(hits)
             IN  << SubSeq(s, p, q - 1) >>
                 \o SplitBlankFrom(s, q + BlankLineAt(s, q))

SplitBlank(s) == SplitBlankFrom(s, 1)

\* Array.prototype.join
RECURSIVE Join(_, _)
Join(parts, sep) ==
    IF Len(parts) = 0 THEN <<>>
    ELSE IF Len(parts) = 1 THEN parts[1]
    ELSE parts[1] \o sep \o Join(Tail(parts), sep)

\* the '\n\n' of the two join calls
NLNL == <<"\n", "\n">>

\* the regex class [^;\r\n]
IsTokenChar(c) == c \notin {";", "\r", "\n"}

\* end (exclusive) of the greedy run [^;\r\n]+ starting at i
TokenEnd(s, i) ==
    LET stops == { p \in i..Len(s) : ~IsTokenChar(s[p]) }
    IN  IF stops = {} THEN Len(s) + 1 ELSE Min(stops)

\* where the group ([^;\r\n]+) starts after the greedy \s* that began at lo and
\* ran to k gives characters back one at a time; 0 when it cannot start
GroupStart(s, lo, k) ==
    LET starts == { p \in lo..k : p <= Len(s) /\ IsTokenChar(s[p]) }
    IN  IF starts = {} THEN 0 ELSE Max(starts)

-----------------------------------------------------------------------------
(* parseEmailBody: the literals of its tests and regular expressions. *)

\* 'text/plain' (lines 94, 107, 132, 144)
LitTextPlain ==
    << "t", "e", "x", "t", "/", "p", "l", "a", "i", "n" >>

\* 'text/html' (lines 135, 144)
LitTextHtml ==
    << "t", "e", "x", "t", "/", "h", "t", "m", "l" >>

\* 'multipart' (line 111)
LitMultipart ==
    << "m", "u", "l", "t", "i", "p", "a", "r", "t" >>

\* Content-Type: of the regex of line 106, folded to lower case
LitContentTypeColon ==
    << "c", "o", "n", "t", "e", "n", "t", "-", "t", "y", "p", "e", ":" >>

\* boundary= of the regex of line 113, folded to lower case
LitBoundaryEq ==
    << "b", "o", "u", "n", "d", "a", "r", "y", "=" >>

\* the '--' of lines 118 and 126
LitDashDash ==
    << "-", "-" >>

-----------------------------------------------------------------------------
(* parseEmailBody, lines 69-153. *)

\* lines 69-79: the chunks copied into one buffer at increasing offsets
RECURSIVE Assemble(_)
Assemble(cs) == IF Len(cs) = 0 THEN <<>> ELSE Head(cs) \o Assemble(Tail(cs))

\* new TextDecoder().decode: UTF-8, a malformed sequence becomes U+FFFD.
\* What the byte at i contributes: a lead byte C3 gives U+E9 with the
\* continuation byte A9 after it and U+FFFD without; A9 is consumed by a
\* lead byte before it and is U+FFFD on its own
Utf8Decode(b) ==
    LET out == [ i \in 1..Len(b) |->
                   IF b[i] = "C3"
                   THEN IF i + 1 <= Len(b) /\ b[i + 1] = "A9"
                        THEN "U+E9" ELSE "U+FFFD"
                   ELSE IF b[i] = "A9"
                   THEN IF i > 1 /\ b[i - 1] = "C3" THEN "" ELSE "U+FFFD"
                   ELSE b[i] ]
    IN  SelectSeq(out, LAMBDA c : c # "")

\* DecodeChunks with each chunk decoded on its own as it arrives
RECURSIVE DecodeChunksSeparately(_)
DecodeChunksSeparately(cs) ==
    IF Len(cs) = 0 THEN <<>>
    ELSE Utf8Decode(Head(cs)) \o DecodeChunksSeparately(Tail(cs))

\* line 82: the text decoded from the combined buffer
DecodeChunks(cs) == Utf8Decode(Assemble(cs))

\* headers.match(/Content-Type:\s*([^;\r\n]+)/i): Some(group 1) of the
\* leftmost match, or None
ContentTypeMatch(h) ==
    LET lit      == LitContentTypeColon
        group(i) == GroupStart(h, i + Len(lit), SkipWS(h, i + Len(lit)))
        hits     == { i \in 1..Len(h) :
                        StartsWithAtCI(h, i, lit) /\ group(i) # 0 }
    IN  IF hits = {} THEN None
        ELSE LET g == group(Min(hits))
             IN  Some(SubSeq(h, g, TokenEnd(h, g) - 1))

\* headers.match(/boundary=([^;\r\n]+)/i): Some(group 1) of the leftmost
\* match, or None
BoundaryMatch(h) ==
    LET lit  == LitBoundaryEq
        hits == { i \in 1..Len(h) :
                    /\ StartsWithAtCI(h, i, lit)
                    /\ i + Len(lit) <= Len(h)
                    /\ IsTokenChar(h[i + Len(lit)]) }
    IN  IF hits = {} THEN None
        ELSE LET g == Min(hits) + Len(lit)
             IN  Some(SubSeq(h, g, TokenEnd(h, g) - 1))

\* .replace(/['"]/g, '')
IsQuote(c) == c \in {"'", "\""}
StripQuotes(s) == SelectSeq(s, LAMBDA c : ~IsQuote(c))

\* line 107
DeclaredContentType(headers) ==
    LET m == ContentTypeMatch(headers)
    IN  IF m = None THEN LitTextPlain ELSE ToLowerCase(Trim(m[1]))

\* a || b on two strings
OrElse(a, b) == IF a # <<>> THEN a ELSE b

\* SectionStep with the first text/plain section kept instead of the last
SectionStepFirstWins(acc, rawPart) ==
    LET part == Trim(rawPart)
    IN  IF part = <<>> \/ part = LitDashDash THEN acc
        ELSE LET pieces      == SplitBlank(part)
                 partHeaders == pieces[1]
                 partBody    == Trim(Join(Tail(pieces), NLNL))
             IN  IF Includes(partHeaders, LitTextPlain)
                 THEN IF acc.textBody = <<>>
                      THEN [acc EXCEPT !.textBody = partBody] ELSE acc
                 ELSE IF Includes(partHeaders, LitTextHtml)
                 THEN [acc EXCEPT !.htmlBody = partBody]
                 ELSE acc

\* lines 125-138: one turn of the loop over the multipart sections;
\* acc holds the loop's textBody and htmlBody
SectionStep(acc, rawPart) ==
    LET part == Trim(rawPart)
    IN  IF part = <<>> \/ part = LitDashDash THEN acc
        ELSE LET pieces      == SplitBlank(part)
                 partHeaders == pieces[1]
                 partBody    == Trim(Join(Tail(pieces), NLNL))
             IN  IF Includes(partHeaders, LitTextPlain)
                 THEN [acc EXCEPT !.textBody = partBody]
                 ELSE IF Includes(partHeaders, LitTextHtml)
                 THEN [acc EXCEPT !.htmlBody = partBody]
                 ELSE acc

\* lines 121-139: the loop, from section i on
RECURSIVE ScanSections(_, _, _)
ScanSections(parts, i, acc) ==
    IF i > Len(parts) THEN acc
    ELSE ScanSections(parts, i + 1, SectionStep(acc, parts[i]))

\* ResolveMultipart with the content type taken from the HTML candidate first
ResolveMultipartHtmlFirst(textBody, htmlBody, bodyContent, contentType) ==
    [ textBody    |-> OrElse(textBody, OrElse(htmlBody, Trim(bodyContent))),
      htmlBody    |-> IF htmlBody # <<>> THEN Some(htmlBody) ELSE None,
      contentType |-> IF htmlBody # <<>> THEN LitTextHtml
                      ELSE IF textBody # <<>> THEN LitTextPlain
                      ELSE contentType ]

\* ResolveMultipart without the "|| undefined" of line 143
ResolveMultipartKeepEmptyHtml(textBody, htmlBody, bodyContent, contentType) ==
    [ textBody    |-> OrElse(textBody, OrElse(htmlBody, Trim(bodyContent))),
      htmlBody    |-> Some(htmlBody),
      contentType |-> IF textBody # <<>> THEN LitTextPlain
                      ELSE IF htmlBody # <<>> THEN LitTextHtml
                      ELSE contentType ]

\* lines 141-145: the object returned for a multipart message
ResolveMultipart(textBody, htmlBody, bodyContent, contentType) ==
    [ textBody    |-> OrElse(textBody, OrElse(htmlBody, Trim(bodyContent))),
      htmlBody    |-> IF htmlBody # <<>> THEN Some(htmlBody) ELSE None,
      contentType |-> IF textBody # <<>> THEN LitTextPlain
                      ELSE IF htmlBody # <<>> THEN LitTextHtml
                      ELSE contentType ]

\* lines 150-153: the object returned for a single-part message
ResolveSinglePart(bodyContent, contentType) ==
    [ textBody |-> Trim(bodyContent), htmlBody |-> None,
      contentType |-> contentType ]

\* lines 90-96: the object returned when the text has no blank line
ResolveUnstructured(rawText) ==
    [ textBody |-> Trim(rawText), htmlBody |-> None,
      contentType |-> LitTextPlain ]

\* lines 87-153: the decoded text to the ParsedEmailContent
ParseText(rawText) ==
    LET parts == SplitBlank(rawText)
    IN  IF Len(parts) < 2 THEN ResolveUnstructured(rawText)
        ELSE LET headers       == parts[1]
                 bodyContent   == Join(Tail(parts), NLNL)
                 contentType   == DeclaredContentType(headers)
                 boundaryMatch == BoundaryMatch(headers)
             IN  IF Includes(contentType, LitMultipart) /\ boundaryMatch # None
                 THEN LET boundary == StripQuotes(boundaryMatch[1])
                          sections == Split(bodyContent, LitDashDash \o boundary)
                          found    == ScanSections(sections, 1,
                                        [textBody |-> <<>>, htmlBody |-> <<>>])
                      IN  ResolveMultipart(found.textBody, found.htmlBody,
                                           bodyContent, contentType)
                 ELSE ResolveSinglePart(bodyContent, contentType)

-----------------------------------------------------------------------------
(* forwardEmail, lines 174-227: the payload's content array.  The fixed    *)
(* runs of the two templates are written as one element each.             *)

\* a value used as a condition: undefined and '' are falsy
Truthy(opt) == opt # None /\ opt[1] # <<>>

\* lines 177-185
TextContent(textBody) ==
    Trim(<<"\n", "---------- Forwarded Message ----------", "\n",
           "From: <from> To: <to> Subject: <subject> Date: <now>", "\n", "\n">>
         \o textBody \o <<"\n", " ", " ">>)

\* lines 194-209
HtmlContent(htmlBody) ==
    Trim(<<"\n", "<!DOCTYPE html> ... <div>">> \o htmlBody
         \o <<"</div>", "\n", "</body>", "\n", "</html>", "\n", " ", " ">>)

\* ComposeContent with the text/html part pushed whatever htmlBody is
ComposeContentHtmlAlways(p) ==
    << [type |-> LitTextPlain, value |-> TextContent(p.textBody)],
       [type |-> LitTextHtml,
        value |-> HtmlContent(IF p.htmlBody = None THEN <<>> ELSE p.htmlBody[1])] >>

\* lines 174-215
ComposeContent(p) ==
    << [type |-> LitTextPlain, value |-> TextContent(p.textBody)] >>
    \o (IF Truthy(p.htmlBody)
        THEN << [type |-> LitTextHtml, value |-> HtmlContent(p.htmlBody[1])] >>
        ELSE <<>>)

-----------------------------------------------------------------------------
(* The errors and responses of forwardEmail and email. *)

\* ApiFailedError with the response body left out of the message
ApiFailedErrorNoBody(status, errorText) ==
    [ isError |-> TRUE,
      message |-> <<"MailChannels API failed: ", ToString(status)>> ]

\* line 268: the Error thrown for a non-success status
ApiFailedError(status, errorText) ==
    [ isError |-> TRUE,
      message |-> <<"MailChannels API failed: ", ToString(status), " - ",
                    errorText>> ]

\* lines 317-320
ConfigErrorResponse ==
    [ status |-> 500,
      body   |-> <<"Configuration error: FORWARD_TO_EMAIL environment variable not set">> ]

\* lines 333-340
SuccessResponse ==
    [ status |-> 200, body |-> <<"Email processed and forwarded successfully">> ]

\* lines 361-369
FailureResponse(e) ==
    [ status |-> 500,
      body   |-> <<"Email processing failed: ">>
                 \o (IF e.isError THEN e.message ELSE <<"Unknown error">>) ]

-----------------------------------------------------------------------------
(* The inputs: what the platform and the two collaborators may hand over. *)

\* env.FORWARD_TO_EMAIL: unset, empty, or an address
Envs == { None, Some(""), Some("fwd@example.org") }

\* statuses the send collaborator answers with; response.ok is 200..299
Statuses == { 202, 400, 500 }
IsOk(status) == status >= 200 /\ status <= 299

\* response bodies of the send collaborator
ResponseTexts == { "", "denied" }

\* values a rejected read() or fetch() carries
ThrownValues ==
    { [isError |-> TRUE, message |-> <<"stream failed">>],
      [isError |-> FALSE, message |-> <<>>] }
TransportErrors == { [isError |-> TRUE, message |-> <<"network down">>] }

\* all sequences over S of length at most n
RECURSIVE SeqsUpTo(_, _)
SeqsUpTo(S, n) ==
    IF n = 0 THEN { <<>> }
    ELSE LET shorter == SeqsUpTo(S, n - 1)
         IN  shorter \cup { Append(s, x) : s \in shorter, x \in S }

LF == <<"\n">>
CRLF == <<"\r", "\n">>

\* header blocks of generated messages
HdrMultipart ==
    << "C", "o", "n", "t", "e", "n", "t", "-", "T", "y", "p", "e", ":", " ",
       "m", "u", "l", "t", "i", "p", "a", "r", "t", "/", "m", "i", "x", "e",
       "d", ";", " ", "b", "o", "u", "n", "d", "a", "r", "y", "=", "X" >>
HdrQuoted ==
    << "c", "o", "n", "t", "e", "n", "t", "-", "t", "y", "p", "e", ":", "M",
       "u", "l", "t", "i", "p", "a", "r", "t", "/", "M", "i", "x", "e", "d",
       ";", "B", "O", "U", "N", "D", "A", "R", "Y", "=", "\"", "X", "\"" >>
HdrNoBoundary ==
    << "C", "o", "n", "t", "e", "n", "t", "-", "T", "y", "p", "e", ":", " ",
       "m", "u", "l", "t", "i", "p", "a", "r", "t", "/", "m", "i", "x", "e",
       "d" >>
HdrHtml ==
    << "C", "o", "n", "t", "e", "n", "t", "-", "T", "y", "p", "e", ":", " ",
       "t", "e", "x", "t", "/", "h", "t", "m", "l" >>
HdrOther ==
    << "S", ":", " ", "a" >>
HeaderBlocks == { HdrMultipart, HdrQuoted, HdrNoBoundary, HdrHtml, HdrOther }

\* section headers of generated messages
SecPlain ==
    << "C", "o", "n", "t", "e", "n", "t", "-", "T", "y", "p", "e", ":", " ",
       "t", "e", "x", "t", "/", "p", "l", "a", "i", "n" >>
SecHtml ==
    << "C", "o", "n", "t", "e", "n", "t", "-", "T", "y", "p", "e", ":", " ",
       "t", "e", "x", "t", "/", "h", "t", "m", "l" >>
SecOther ==
    << "C", "o", "n", "t", "e", "n", "t", "-", "T", "y", "p", "e", ":", " ",
       "i", "m", "a", "g", "e", "/", "p", "n", "g" >>
SectionHeaders == { SecPlain, SecHtml, SecOther }

\* section bodies of generated messages; None: the section has no blank line
SectionBodies == { None, Some(<<"a">>), Some(<<"b">>) }

Sections == [ header : SectionHeaders, body : SectionBodies ]

\* one section as it stands in the body: delimiter, header, blank line, body
RenderSection(sec, eol) ==
    LitDashDash \o <<"X">> \o eol \o sec.header \o eol
    \o (IF sec.body = None THEN <<>> ELSE eol \o sec.body[1] \o eol)

RECURSIVE RenderSections(_, _)
RenderSections(secs, eol) ==
    IF Len(secs) = 0 THEN <<>>
    ELSE RenderSection(Head(secs), eol) \o RenderSections(Tail(secs), eol)

\* a whole message: header block, blank line, sections, closing delimiter
Message(hdr, secs, eol, closed) ==
    hdr \o eol \o eol \o RenderSections(secs, eol)
    \o (IF closed THEN LitDashDash \o <<"X">> \o LitDashDash ELSE <<>>)

\* free-form text, for the paths that find no structure
FreeChars == { "a", " ", "\n", "\r" }

\* the texts the decoder is checked on
ParseSources ==
    SeqsUpTo(FreeChars, MaxText)
    \cup { Message(h, secs, eol, closed) :
             h \in HeaderBlocks, secs \in SeqsUpTo(Sections, MaxSections),
             eol \in { LF, CRLF }, closed \in BOOLEAN }

\* free-form bytes, among them the two bytes of one two-byte character
FreeBytes == { "a", "\n", "C3", "A9" }

\* the byte streams the handler is checked on
StreamSources ==
    SeqsUpTo(FreeBytes, MaxText)
    \cup { Message(HdrMultipart, <<sec>>, LF, FALSE) :
             sec \in { [header |-> SecHtml, body |-> Some(<<"C3", "A9">>)],
                       [header |-> SecPlain, body |-> Some(<<"a">>)] } }

-----------------------------------------------------------------------------
(* The handler: email() calling forwardEmail() calling parseEmailBody(),   *)
(* one action for each stretch of code between two awaits.                 *)

\* the test of line 313, negated
ConfigPresent(e) == e # None /\ e[1] # ""

\* the stream as the platform hands it over, before email() runs
Init ==
    /\ pc = "start"
    /\ env \in Envs
    /\ source \in StreamSources
    /\ pending = source
    /\ readerHeld = FALSE
    /\ reads = 0
    /\ chunks = <<>>
    /\ parsed = None
    /\ content = <<>>
    /\ fetchCalls = 0
    /\ fetched = None
    /\ error = None
    /\ response = None

\* CheckConfig without the test of line 313
CheckConfigSkipped ==
    /\ pc = "start"
    /\ pc' = "getReader"
    /\ UNCHANGED <<env, source, pending, readerHeld, reads, chunks, parsed,
                   content, fetchCalls, fetched, error, response>>

\* lines 312-324: the configuration check that opens email()
CheckConfig ==
    /\ pc = "start"
    /\ IF ConfigPresent(env)
       THEN /\ pc' = "getReader"
            /\ UNCHANGED response
       ELSE /\ pc' = "done"
            /\ response' = Some(ConfigErrorResponse)
    /\ UNCHANGED <<env, source, pending, readerHeld, reads, chunks, parsed,
                   content, fetchCalls, fetched, error>>

\* lines 156-165 and 43-46: forwardEmail calls parseEmailBody, which locks
\* the stream
GetReader ==
    /\ pc = "getReader"
    /\ readerHeld' = TRUE
    /\ pc' = "reading"
    /\ UNCHANGED <<env, source, pending, reads, chunks, parsed, content,
                   fetchCalls, fetched, error, response>>

\* lines 54-62: read() resolves with the next chunk, of any size; a stream
\* delivers its bytes in at most MaxChunks chunks
ReadChunk ==
    /\ pc = "reading"
    /\ Len(chunks) < MaxChunks
    /\ \E k \in 0..Len(pending) :
          /\ Len(chunks) = MaxChunks - 1 => k = Len(pending)
          /\ chunks' = Append(chunks, SubSeq(pending, 1, k))
          /\ pending' = SubSeq(pending, k + 1, Len(pending))
    /\ reads' = reads + 1
    /\ UNCHANGED <<pc, env, source, readerHeld, parsed, content, fetchCalls,
                   fetched, error, response>>

\* lines 54-57 and 64-67: read() resolves with done, the loop breaks and
\* the finally block releases the lock
ReadDone ==
    /\ pc = "reading"
    /\ pending = <<>>
    /\ reads' = reads + 1
    /\ readerHeld' = FALSE
    /\ pc' = "drained"
    /\ UNCHANGED <<env, source, pending, chunks, parsed, content, fetchCalls,
                   fetched, error, response>>

\* ReadError without the finally block of lines 64-67
ReadErrorNoRelease ==
    /\ pc = "reading"
    /\ \E e \in ThrownValues : error' = Some(e)
    /\ reads' = reads + 1
    /\ chunks' = <<>>
    /\ pc' = "catch"
    /\ UNCHANGED <<env, source, pending, readerHeld, parsed, content,
                   fetchCalls, fetched, response>>

\* lines 54 and 64-67: read() rejects; the finally block releases the lock
\* and the rejection leaves parseEmailBody, whose chunks array is gone, and
\* forwardEmail (line 165)
ReadError ==
    /\ pc = "reading"
    /\ \E e \in ThrownValues : error' = Some(e)
    /\ reads' = reads + 1
    /\ readerHeld' = FALSE
    /\ chunks' = <<>>
    /\ pc' = "catch"
    /\ UNCHANGED <<env, source, pending, parsed, content, fetchCalls,
                   fetched, response>>

\* lines 69-153: the chunks assembled, decoded and parsed; parseEmailBody
\* returns and its chunks array is gone
Parse ==
    /\ pc = "drained"
    /\ parsed' = Some(ParseText(DecodeChunks(chunks)))
    /\ chunks' = <<>>
    /\ pc' = "parsed"
    /\ UNCHANGED <<env, source, pending, readerHeld, reads, content,
                   fetchCalls, fetched, error, response>>

\* lines 166-247: the payload composed
Compose ==
    /\ pc = "parsed"
    /\ content' = ComposeContent(parsed[1])
    /\ pc' = "composed"
    /\ UNCHANGED <<env, source, pending, readerHeld, reads, chunks, parsed,
                   fetchCalls, fetched, error, response>>

\* lines 249-256: the POST issued
Fetch ==
    /\ pc = "composed"
    /\ fetchCalls' = fetchCalls + 1
    /\ pc' = "awaitFetch"
    /\ UNCHANGED <<env, source, pending, readerHeld, reads, chunks, parsed,
                   content, fetched, error, response>>

\* lines 250-264 and 271: fetch() resolves with a response, whose text is
\* awaited next
FetchResolves ==
    /\ pc = "awaitFetch"
    /\ \E s \in Statuses : fetched' = Some([status |-> s, text |-> None])
    /\ pc' = "awaitText"
    /\ UNCHANGED <<env, source, pending, readerHeld, reads, chunks, parsed,
                   content, fetchCalls, error, response>>

\* lines 250 and 276-279: fetch() rejects; the catch block rethrows
FetchRejects ==
    /\ pc = "awaitFetch"
    /\ \E e \in TransportErrors : error' = Some(e)
    /\ pc' = "catch"
    /\ UNCHANGED <<env, source, pending, readerHeld, reads, chunks, parsed,
                   content, fetchCalls, fetched, response>>

\* TextResolves with one more POST after a non-success status
TextResolvesRetry ==
    /\ pc = "awaitText"
    /\ \E t \in ResponseTexts :
          /\ fetched' = Some([fetched[1] EXCEPT !.text = Some(t)])
          /\ IF IsOk(fetched[1].status)
             THEN /\ response' = Some(SuccessResponse)
                  /\ pc' = "done"
                  /\ UNCHANGED error
             ELSE IF fetchCalls < 2
             THEN /\ pc' = "composed"
                  /\ UNCHANGED <<error, response>>
             ELSE /\ error' = Some(ApiFailedError(fetched[1].status, t))
                  /\ pc' = "catch"
                  /\ UNCHANGED response
    /\ UNCHANGED <<env, source, pending, readerHeld, reads, chunks, parsed,
                   content, fetchCalls>>

\* lines 263-274 and 326-340: response.text() resolves; a non-success
\* status throws, a success status lets email() return its 200
TextResolves ==
    /\ pc = "awaitText"
    /\ \E t \in ResponseTexts :
          /\ fetched' = Some([fetched[1] EXCEPT !.text = Some(t)])
          /\ IF IsOk(fetched[1].status)
             THEN /\ response' = Some(SuccessResponse)
                  /\ pc' = "done"
                  /\ UNCHANGED error
             ELSE /\ error' = Some(ApiFailedError(fetched[1].status, t))
                  /\ pc' = "catch"
                  /\ UNCHANGED response
    /\ UNCHANGED <<env, source, pending, readerHeld, reads, chunks, parsed,
                   content, fetchCalls>>

\* lines 264, 271 and 276-279: response.text() rejects; the catch block
\* rethrows
TextRejects ==
    /\ pc = "awaitText"
    /\ \E e \in TransportErrors : error' = Some(e)
    /\ pc' = "catch"
    /\ UNCHANGED <<env, source, pending, readerHeld, reads, chunks, parsed,
                   content, fetchCalls, fetched, response>>

\* Catch rethrowing instead of returning a Response
CatchRethrow ==
    /\ pc = "catch"
    /\ pc' = "threw"
    /\ UNCHANGED <<env, source, pending, readerHeld, reads, chunks, parsed,
                   content, fetchCalls, fetched, error, response>>

\* lines 342-369: the catch block of email()
Catch ==
    /\ pc = "catch"
    /\ response' = Some(FailureResponse(error[1]))
    /\ pc' = "done"
    /\ UNCHANGED <<env, source, pending, readerHeld, reads, chunks, parsed,
                   content, fetchCalls, fetched, error>>

Next ==
    \/ CheckConfig
    \/ GetReader
    \/ ReadChunk
    \/ ReadDone
    \/ ReadError
    \/ Parse
    \/ Compose
    \/ Fetch
    \/ FetchResolves
    \/ FetchRejects
    \/ TextResolves
    \/ TextRejects
    \/ Catch

Spec == Init /\ [][Next]_vars

\* the steps that wait on nothing but the event loop or a collaborator
Settles ==
    \/ CheckConfig
    \/ GetReader
    \/ ReadChunk
    \/ ReadDone
    \/ ReadError
    \/ Compose
    \/ Fetch
    \/ FetchResolves
    \/ FetchRejects
    \/ TextResolves
    \/ TextRejects
    \/ Catch

\* Parse as a move of pc alone: Parse is enabled exactly when pc = "drained"
ParseReturns == pc = "drained" /\ pc' = "parsed"

\* every awaited promise settles (the stream answers each read(), the send
\* collaborator answers the POST and the read of its body) and synchronous
\* code runs to its next await
FairSpec == Spec /\ WF_vars(Settles) /\ WF_pc(ParseReturns)

-----------------------------------------------------------------------------
(* The decoder and the composer on their own: parseEmailBody has drained   *)
(* a stream that delivered its bytes in one chunk.                         *)

ParseInit ==
    /\ pc = "drained"
    /\ env = Some("fwd@example.org")
    /\ source \in ParseSources
    /\ pending = <<>>
    /\ readerHeld = FALSE
    /\ chunks = (IF source = <<>> THEN <<>> ELSE << source >>)
    /\ reads = Len(chunks) + 1
    /\ parsed = None
    /\ content = <<>>
    /\ fetchCalls = 0
    /\ fetched = None
    /\ error = None
    /\ response = None

ParseNext == Parse \/ Compose

ParseSpec == ParseInit /\ [][ParseNext]_vars

-----------------------------------------------------------------------------
(* Vocabulary of the properties: the decoded text of the whole stream and  *)
(* the sections the multipart loop works on.                               *)

\* the text of the whole message, however the stream delivered it
Text == Utf8Decode(source)

\* the body block of line 99
BodyBlock(rawText) == Join(Tail(SplitBlank(rawText)), NLNL)

\* lines 90, 111 and 114: the text is disassembled as multipart
IsMultipartWithBoundary(rawText) ==
    LET parts == SplitBlank(rawText)
    IN  /\ Len(parts) >= 2
        /\ Includes(DeclaredContentType(parts[1]), LitMultipart)
        /\ BoundaryMatch(parts[1]) # None

\* lines 118 and 125-130: the sections the loop does not skip, each with its
\* header fragment and its body fragment
SectionList(rawText) ==
    LET boundary == StripQuotes(BoundaryMatch(SplitBlank(rawText)[1])[1])
        all      == Split(BodyBlock(rawText), LitDashDash \o boundary)
        kept     == SelectSeq(all, LAMBDA p : Trim(p) \notin { <<>>, LitDashDash })
    IN  [ i \in 1..Len(kept) |->
            LET pieces == SplitBlank(Trim(kept[i]))
            IN  [ headers |-> pieces[1],
                  body    |-> Trim(Join(Tail(pieces), NLNL)) ] ]

\* the sections whose header fragment names text/plain, and those taken as
\* text/html (line 135 is the else branch of line 132)
PlainSections(secs) ==
    { i \in 1..Len(secs) : Includes(secs[i].headers, LitTextPlain) }
HtmlSections(secs) ==
    { i \in 1..Len(secs) : /\ ~Includes(secs[i].headers, LitTextPlain)
                           /\ Includes(secs[i].headers, LitTextHtml) }

\* the body fragment of the last section among idx, '' when idx is empty
Candidate(secs, idx) == IF idx = {} THEN <<>> ELSE secs[Max(idx)].body

\* the text after the first blank line, or the whole text when there is none
OriginalBody(rawText) ==
    LET hits == { q \in 1..Len(rawText) : BlankLineAt(rawText, q) > 0 }
    IN  IF hits = {} THEN rawText
        ELSE SubSeq(rawText, Min(hits) + BlankLineAt(rawText, Min(hits)),
                    Len(rawText))

\* the parts of the composed payload of one type
PartsOfType(type) == { i \in 1..Len(content) : content[i].type = type }

\* piece is one of the pieces a message was put together from
HasPiece(msg, piece) == \E i \in 1..Len(msg) : msg[i] = piece

\* the send collaborator was called and did not answer with a success status
SendFailed ==
    /\ fetchCalls >= 1
    /\ pc \in { "catch", "done" }
    /\ (fetched = None \/ ~IsOk(fetched[1].status))

\* parseEmailBody ended with a rejected read()
ReadFailed == pc \in { "catch", "done" } /\ error # None /\ error[1] \in ThrownValues

-----------------------------------------------------------------------------
(* Properties. *)

\* C1: with FORWARD_TO_EMAIL unset or empty, the handler goes from its start
\* straight to a status 500 response: no POST is issued, the stream is never
\* locked and none of its bytes is read.
C1_MissingConfigFailsEarly ==
    ~ConfigPresent(env) =>
        /\ pc \in { "start", "done" }
        /\ fetchCalls = 0
        /\ reads = 0
        /\ ~readerHeld
        /\ pending = source
        /\ (pc = "done" => response # None /\ response[1].status = 500)

C1_Witness ==
    /\ ~ConfigPresent(env)
    /\ pc = "done"
    /\ response = Some(ConfigErrorResponse)
    /\ source # <<>>

\* C2: when the send collaborator answered with a non-success status, the
\* handler returns status 500, and once the response body was read the
\* message of that response holds both the status code and the body text.
C2_SendRejectionReported ==
    (pc = "done" /\ fetched # None /\ ~IsOk(fetched[1].status)) =>
        /\ response # None
        /\ response[1].status = 500
        /\ fetched[1].text # None =>
              /\ HasPiece(response[1].body, ToString(fetched[1].status))
              /\ HasPiece(response[1].body, fetched[1].text[1])

C2_Witness ==
    /\ pc = "done"
    /\ fetched = Some([status |-> 400, text |-> Some("denied")])
    /\ response # None
    /\ response[1].status = 500

\* C3: the reader is held only inside the read loop: it is released when the
\* loop ends at end-of-stream and when a read() fails after any number of
\* chunks, and a failed read still leaves parseEmailBody as an error.
C3_ReaderReleased ==
    /\ readerHeld => pc = "reading"
    /\ pc = "drained" => pending = <<>> /\ error = None
    /\ (pc = "catch" /\ parsed = None) => error # None /\ error[1] \in ThrownValues

C3_Witness ==
    /\ pc = "catch"
    /\ ReadFailed
    /\ reads >= 2
    /\ pending # source
    /\ ~readerHeld

\* C4: the composed payload holds exactly one text/plain part, and one
\* text/html part if the decoder resolved an htmlBody and none otherwise.
C4_ContentParts ==
    pc = "composed" =>
        /\ Cardinality(PartsOfType(LitTextPlain)) = 1
        /\ Cardinality(PartsOfType(LitTextHtml))
             = (IF parsed[1].htmlBody # None THEN 1 ELSE 0)

C4_Witness ==
    /\ pc = "composed"
    /\ parsed[1].htmlBody # None
    /\ Cardinality(PartsOfType(LitTextHtml)) = 1
    /\ Cardinality(PartsOfType(LitTextPlain)) = 1

C6_FallbackChain_AsClaimed ==
    (pc = "parsed" /\ IsMultipartWithBoundary(Text)) =>
        LET secs      == SectionList(Text)
            plain     == Candidate(secs, PlainSections(secs))
            html      == Candidate(secs, HtmlSections(secs))
            plainSeen == PlainSections(secs) # {}
            htmlSeen  == HtmlSections(secs) # {}
        IN  /\ parsed[1].textBody =
                 (IF plainSeen THEN plain
                  ELSE IF htmlSeen THEN html
                  ELSE Trim(BodyBlock(Text)))
            /\ parsed[1].contentType =
                 (IF plainSeen THEN LitTextPlain
                  ELSE IF htmlSeen THEN LitTextHtml
                  ELSE DeclaredContentType(SplitBlank(Text)[1]))

\* C6, amended: after the scan, textBody is the plain-text candidate if it
\* is not empty, else the HTML candidate if it is not empty, else the
\* trimmed body block; contentType is text/plain if the plain-text
\* candidate is not empty, else text/html if the HTML candidate is not
\* empty, else the declared type.  A section found with an empty body
\* fragment counts as not found.
C6_FallbackChain ==
    (pc = "parsed" /\ IsMultipartWithBoundary(Text)) =>
        LET secs  == SectionList(Text)
            plain == Candidate(secs, PlainSections(secs))
            html  == Candidate(secs, HtmlSections(secs))
        IN  /\ parsed[1].textBody =
                 (IF plain # <<>> THEN plain
                  ELSE IF html # <<>> THEN html
                  ELSE Trim(BodyBlock(Text)))
            /\ parsed[1].contentType =
                 (IF plain # <<>> THEN LitTextPlain
                  ELSE IF html # <<>> THEN LitTextHtml
                  ELSE DeclaredContentType(SplitBlank(Text)[1]))

C6_Witness ==
    /\ pc = "parsed"
    /\ IsMultipartWithBoundary(Text)
    /\ LET secs == SectionList(Text)
       IN  /\ PlainSections(secs) = {}
           /\ HtmlSections(secs) # {}
           /\ Candidate(secs, HtmlSections(secs)) = <<"a">>
           /\ parsed[1].textBody = <<"a">>
           /\ parsed[1].contentType = LitTextHtml

\* C7, as claimed: textBody is empty only if the original body was empty,
\* and htmlBody, when present, is not empty.
C7_BodiesNonEmpty_AsClaimed ==
    pc = "parsed" =>
        /\ parsed[1].textBody = <<>> => OriginalBody(Text) = <<>>
        /\ parsed[1].htmlBody # None => parsed[1].htmlBody[1] # <<>>

\* C7, amended: textBody is empty only if the original body was empty or
\* held nothing but white space, and htmlBody, when present, is not empty.
C7_BodiesNonEmpty ==
    pc = "parsed" =>
        /\ parsed[1].textBody = <<>> => Trim(OriginalBody(Text)) = <<>>
        /\ parsed[1].htmlBody # None => parsed[1].htmlBody[1] # <<>>

C7_Witness ==
    /\ pc = "parsed"
    /\ IsMultipartWithBoundary(Text)
    /\ parsed[1].textBody # <<>>
    /\ PlainSections(SectionList(Text)) = {}
    /\ HtmlSections(SectionList(Text)) = {}
    /\ Len(SectionList(Text)) >= 1

\* C8: however the stream cut the bytes into chunks, the drained chunks put
\* together are the bytes of the message, and the ParsedEmailContent is the
\* one of the text decoded from the whole message.
C8_ChunkingIndependent ==
    /\ pc = "reading" => Assemble(chunks) \o pending = source
    /\ pc = "drained" => Assemble(chunks) = source
    /\ pc = "parsed" => parsed = Some(ParseText(Text))

C8_Witness ==
    /\ pc = "drained"
    /\ Len(chunks) = 2
    /\ chunks[1] # <<>> /\ chunks[1][Len(chunks[1])] = "C3"
    /\ chunks[2] # <<>> /\ chunks[2][1] = "A9"

\* C9: at most one POST is issued in a run; a failed send is not tried
\* again, it reaches the catch block of email() as an error and the handler
\* returns status 500.
C9_NoRetry ==
    /\ fetchCalls <= 1
    /\ SendFailed => error # None
    /\ (SendFailed /\ pc = "done") => response # None /\ response[1].status = 500

C9_Witness ==
    /\ pc = "done"
    /\ SendFailed
    /\ fetchCalls = 1
    /\ response # None
    /\ response[1].status = 500

\* what holds once the handler is done: it has returned a response of status
\* 200 or 500, and 200 only with the address configured, the stream drained
\* to its end without error, the reader released and the one POST answered
\* with a success status
C10_Returned ==
    pc = "done" =>
        /\ response # None
        /\ response[1].status \in { 200, 500 }
        /\ response[1].status = 200 =>
              /\ ConfigPresent(env)
              /\ pending = <<>>
              /\ ~readerHeld
              /\ error = None
              /\ parsed # None
              /\ fetchCalls = 1
              /\ fetched # None
              /\ IsOk(fetched[1].status)

\* C10: every run ends with a returned response; it is status 200 only
\* after a configured address, a stream drained without error with its
\* reader released and one POST answered with a success status, and status
\* 500 otherwise; a rejected read() ends in that failure with no POST issued.
C10_Outcome ==
    /\ [](C10_Returned /\ (ReadFailed => fetchCalls = 0))
    /\ <>(pc = "done")

C10_Witness ==
    /\ pc = "done"
    /\ response = Some(SuccessResponse)
    /\ reads >= 2

====
